---- MODULE Spec2Model ----
(***************************************************************************)
(* Time-synchronised video playback (script.js): the clock source          *)
(* (getNowByMode), the cycle mapper (computePartAndOffset), the playback    *)
(* driver (loadAndSeekTo) and the resync controller (resyncOnce).          *)
(*                                                                         *)
(* Instants are epoch milliseconds, as Date.getTime() returns them.  The   *)
(* model's epoch 0 is 00:00:00.000 UTC of day 0; inputs are drawn from     *)
(* day 2 on, so that every anchor the mapper computes is non-negative.     *)
(***************************************************************************)
EXTENDS Integers, Sequences, FiniteSets, TLC

VARIABLES
    zone,           \* the visitor's time zone (the platform's, fixed for a page)
    clock,          \* Date.now(): epoch milliseconds
    timezoneMode,   \* script.js:23
    date,           \* mapper pipeline: the Date getNowByMode returned
    mapped,         \* mapper pipeline: computePartAndOffset(date)
    mappedNext,     \* mapper pipeline: computePartAndOffset(date + 1 s)
    mappedAgain,    \* mapper pipeline: computePartAndOffset(date), called once more
    mpc,            \* mapper pipeline: position ("clock", "map", "done", "again")
    sources,        \* script.js:18: the keys the asset mapping has an entry for
    mediaDuration,  \* the duration, in seconds, of the media the assets hold
    browserThrows,  \* whether this browser throws on seeking an element without metadata
    video,          \* the <video> element: src, readyState, duration, currentTime, ...
    metaListeners,  \* the element's 'loadedmetadata' listeners, in registration order
    seekedListeners,\* the element's 'seeked' listeners, in registration order
    retryTimers,    \* the pending 300 ms timers of script.js:86, in the order set
    completed,      \* the parts a loadAndSeekTo call's promise has resolved for
    lastPartIndex,  \* script.js:54
    started,        \* whether the script's top level has run (script.js:361-364)
    lastSync,       \* what the most recent resyncOnce call saw and did
    muted,          \* video.muted
    volume,         \* video.volume, in tenths
    savedVolume,    \* script.js:25, in tenths
    firstUserClick, \* script.js:378
    overlayHidden,  \* whether #overlay carries the class 'hidden'
    fullscreen,     \* whether document.fullscreenElement is set
    display,        \* the texts of #localTime, #partName and #tzLabel
    storage,        \* localStorage's item 'videoPlayerSettings'
    settingsLoaded, \* whether loadSettings has run (script.js:287)
    unloadedMode,   \* the timezone mode the page before this one ended with
    reloads,        \* how many times the page has been reloaded
    timer,          \* script.js:461: the handle of the interval startTimer set last
    intervals,      \* the handles of the intervals of script.js:647 still set
    remainingSeconds, \* script.js:462
    isRunning,      \* script.js:463
    currentMode,    \* script.js:464
    workRounds,     \* script.js:465
    durationInputs, \* the values of #workDuration, #shortBreak and #longBreak
    buttons,        \* the disabled flags of the start and pause buttons
    pomodoroShown,  \* what updateDisplay wrote last
    sessionItems    \* sessionStorage's four pomodoro_ items

mapperVars == <<date, mapped, mappedNext, mappedAgain, mpc>>
envVars == <<zone, sources, mediaDuration, browserThrows>>
playerVars == <<video, metaListeners, seekedListeners, retryTimers, completed,
                lastPartIndex, started, lastSync>>
controlVars == <<muted, volume, savedVolume, firstUserClick, overlayHidden,
                 fullscreen>>
settingsVars == <<storage, settingsLoaded, unloadedMode, reloads>>
vars == <<zone, clock, timezoneMode, date, mapped, mappedNext, mappedAgain, mpc,
          sources, mediaDuration, browserThrows, video, metaListeners, seekedListeners,
          retryTimers, completed, lastPartIndex, started, lastSync, muted, volume,
          savedVolume, firstUserClick, overlayHidden, fullscreen, display,
          storage, settingsLoaded, unloadedMode, reloads, timer, intervals,
          remainingSeconds, isRunning, currentMode, workRounds, durationInputs,
          buttons, pomodoroShown, sessionItems>>

----------------------------------------------------------------------------
(* The Pomodoro timer's state, script.js:461-516 and 617-638. The timer    *)
(* shares no variable with the video's code.                               *)

pomodoroVars == <<timer, intervals, remainingSeconds, isRunning, currentMode,
                  workRounds, durationInputs, buttons, pomodoroShown,
                  sessionItems>>

\* script.js:461: timer = null
NoTimer == 0

\* script.js:466
maxRounds == 4

\* the minutes the three duration inputs may hold
DurationValues == {1, 2}

DurationInputs == [work : DurationValues, short : DurationValues,
                   long : DurationValues]

\* sessionStorage without the timer's items
NoSession == [kind |-> "absent", remaining |-> 0, mode |-> "", rounds |-> 0,
              running |-> FALSE]

\* script.js:478-487: the four items, written together
savePomodoroState(remaining, mode, rounds, running) ==
    [kind |-> "saved", remaining |-> remaining, mode |-> mode,
     rounds |-> rounds, running |-> running]

\* script.js:617-621: minutes and seconds, each shown with two digits
formatTime(seconds) == <<seconds \div 60, seconds % 60>>

\* script.js:623-638: the texts of #pomodoroDisplay, #pomodoroRound and
\* .pomodoro-status
updateDisplay(remaining, rounds, mode) ==
    [time |-> formatTime(remaining), round |-> rounds,
     status |-> IF mode \in {"work", "short-break", "long-break"}
                THEN mode ELSE "unchanged"]

\* script.js:461-467, 765-766: the timer as the script builds it in a tab
\* whose sessionStorage holds none of its items
PomodoroConstructed ==
    /\ timer = NoTimer
    /\ intervals = {}
    /\ remainingSeconds = 25 * 60
    /\ isRunning = FALSE
    /\ currentMode = "work"
    /\ workRounds = 0
    /\ buttons = [startDisabled |-> FALSE, pauseDisabled |-> FALSE]
    /\ pomodoroShown = updateDisplay(25 * 60, 0, "work")
    /\ sessionItems = NoSession

----------------------------------------------------------------------------
(* Bounds of the model *)

\* number of UTC days the clock readings are drawn from (days 2 .. 1+MaxDays)
MaxDays == 2

\* number of listeners loadAndSeekTo calls may have registered on the element at a time
MaxListeners == 2

\* number of page reloads
MaxReloads == 1

\* number of 300 ms retry timers pending at a time
MaxTimers == 1

----------------------------------------------------------------------------
(* The platform's Date: epoch milliseconds and the visitor's local time *)

MsPerMinute == 60 * 1000
MsPerHour == 3600 * 1000
MsPerDay == 86400 * 1000

\* A time zone: std is Date.prototype.getTimezoneOffset() in standard time
\* (minutes, UTC minus local); rule says whether the zone changes its offset
\* inside the modelled window: "spring" puts the clocks forward from 02:00
\* to 03:00 on local day 2, "fall" puts them back from 02:00 to 01:00.
Zones ==
    { [std |-> 0, rule |-> "none"],
      [std |-> 300, rule |-> "none"],
      [std |-> -540, rule |-> "none"],
      [std |-> -330, rule |-> "none"],
      [std |-> 300, rule |-> "spring"],
      [std |-> 300, rule |-> "fall"] }

OffsetBefore(z) == IF z.rule = "fall" THEN z.std - 60 ELSE z.std
OffsetAfter(z) == IF z.rule = "spring" THEN z.std - 60 ELSE z.std

\* the instant of the zone's offset change (02:00 local, old offset, day 2)
Transition(z) == 2 * MsPerDay + 2 * MsPerHour + OffsetBefore(z) * MsPerMinute

\* Date.prototype.getTimezoneOffset() of the Date with time value t
getTimezoneOffset(t) ==
    IF t < Transition(zone) THEN OffsetBefore(zone) ELSE OffsetAfter(zone)

\* ECMAScript LocalTime(t): the local wall-clock reading, in milliseconds
\* since 00:00:00.000 local time of day 0
LocalTime(t) == t - getTimezoneOffset(t) * MsPerMinute

\* ECMAScript UTC(t): the time value of a local wall-clock reading.  A
\* reading that occurs twice denotes its first occurrence; a reading that is
\* skipped is interpreted with the offset in force before the change.
UTC(wall) ==
    LET a == wall + OffsetBefore(zone) * MsPerMinute
        b == wall + OffsetAfter(zone) * MsPerMinute
    IN  IF a < Transition(zone) THEN a
        ELSE IF b >= Transition(zone) THEN b
        ELSE a

\* base.setHours(1, 0, 0, 0): 01:00:00.000 local time of the Date's local day
setHours(t) == UTC((LocalTime(t) \div MsPerDay) * MsPerDay + 1 * MsPerHour)

\* base.setDate(base.getDate() - 1): same local time of day, previous local day
setDate(t) == UTC(LocalTime(t) - MsPerDay)

\* JavaScript's % : the remainder takes the sign of the dividend
JsRem(a, b) == IF a >= 0 THEN a % b ELSE 0 - ((0 - a) % b)

\* Math.floor(a / b) for b > 0
FloorDiv(a, b) == IF a >= 0 THEN a \div b ELSE 0 - (((0 - a) + b - 1) \div b)

----------------------------------------------------------------------------
(* Cycle mapper, script.js:20-48 *)

PART_LENGTH_SECONDS == 8 * 3600

\* script.js:34-39: the anchor, 01:00 local of the Date's day or of the day before
Anchor(d) ==
    LET base == setHours(d)
    IN  IF d < base THEN setDate(base) ELSE base

\* WrapDay without the wrap of script.js:43
WrapDay_NoWrap(diffSeconds) == diffSeconds

\* script.js:43
WrapDay(diffSeconds) == JsRem(JsRem(diffSeconds, 86400) + 86400, 86400)

\* script.js:40: seconds since the anchor, before the wrap
DiffSeconds(d) == FloorDiv(d - Anchor(d), 1000)

computePartAndOffset(d) ==
    LET diffSeconds == WrapDay(DiffSeconds(d))
    IN  [partIndex |-> FloorDiv(diffSeconds, PART_LENGTH_SECONDS),
         offset |-> JsRem(diffSeconds, PART_LENGTH_SECONDS)]

----------------------------------------------------------------------------
(* Clock source, script.js:242-248 *)

\* getNowByMode with timezoneMode = mode: the time value of the Date returned
NowByMode(mode) ==
    IF mode = "local" THEN clock
    ELSE LET utcMs == clock + getTimezoneOffset(clock) * 60000
             tokyoMs == utcMs + 9 * 3600 * 1000
         IN  tokyoMs

getNowByMode == NowByMode(timezoneMode)

----------------------------------------------------------------------------
(* The <video> element, as the HTML standard specifies an HTMLMediaElement *)

NULL == -1
Keys == {"p1", "p2", "p3"}

Min(a, b) == IF a <= b THEN a ELSE b
Max(a, b) == IF a >= b THEN a ELSE b
Abs(a) == IF a >= 0 THEN a ELSE 0 - a

\* An element without a source.  src is the key of the asset whose URL the
\* element carries ("" for none); duration 0 stands for NaN (not yet known);
\* seekable says whether the element has a range to seek in.
EmptyVideo ==
    [src |-> "", readyState |-> 0, loading |-> FALSE, duration |-> 0,
     currentTime |-> 0, seeking |-> FALSE, paused |-> TRUE, seekable |-> FALSE]

\* video.src = src; video.load(): the media element load algorithm
Load(v, key) ==
    [v EXCEPT !.src = key, !.readyState = 0, !.loading = TRUE, !.duration = 0,
              !.currentTime = 0, !.seeking = FALSE, !.paused = TRUE,
              !.seekable = FALSE]

\* whether "video.currentTime = x" throws: in a browser that throws, it does
\* so without metadata (InvalidStateError) and while the element has no
\* range to seek in (IndexSizeError)
Throws(v) == browserThrows /\ (v.readyState = 0 \/ ~v.seekable)

\* video.currentTime = x, when it does not throw: without metadata x becomes
\* the default playback start position, with metadata the element seeks to x,
\* clamped to the end of the media
SetCurrentTime(v, x) ==
    IF v.readyState = 0 THEN [v EXCEPT !.currentTime = x]
    ELSE [v EXCEPT !.currentTime = Min(x, v.duration), !.seeking = TRUE]

\* video.play(): allowed says whether the browser's autoplay policy lets it start
Play(v, allowed) == [v EXCEPT !.paused = @ /\ ~allowed]

----------------------------------------------------------------------------
(* Playback driver, script.js:50-115 *)

partIndexToKey(i) == IF i = 0 THEN "p1" ELSE IF i = 1 THEN "p2" ELSE IF i = 2 THEN "p3" ELSE "p1"

\* SrcDiffers taking every call for a change of source
SrcDiffers_Always(v, key) == TRUE

\* script.js:92: !video.src || !video.src.endsWith(src)
SrcDiffers(v, key) == v.src = "" \/ v.src # key

\* WrapOffset stopping at the end of a shorter media
WrapOffset_Clamp(offsetSeconds, duration) ==
    IF duration # 0 /\ offsetSeconds > duration
    THEN duration
    ELSE offsetSeconds

\* script.js:67-70: the offset doSeek applies, wrapped modulo a shorter duration
WrapOffset(offsetSeconds, duration) ==
    IF duration # 0 /\ offsetSeconds > duration
    THEN JsRem(offsetSeconds, duration)
    ELSE offsetSeconds

\* doSeek giving up when the assignment throws, with no retry
doSeek_NoRetry(s, partIndex, offset) ==
    LET offsetSeconds == WrapOffset(offset, s.video.duration)
        s1 == [s EXCEPT !.seeked = Append(@, [part |-> partIndex,
                                              offset |-> offsetSeconds])]
    IN  IF Throws(s1.video)
        THEN s1
        ELSE [s1 EXCEPT !.video = SetCurrentTime(@, Max(0, offsetSeconds))]

\* script.js:64-90: doSeek of a call with closure variable offsetSeconds.  s is
\* the session: the element, its listeners, the settled calls, lastPartIndex
\* and the record of the running resync.  A listener is the call's part, its
\* offsetSeconds and, for 'loadedmetadata', whether it goes on to play().
doSeek(s, partIndex, offset) ==
    LET offsetSeconds == WrapOffset(offset, s.video.duration)
        s1 == [s EXCEPT !.seeked = Append(@, [part |-> partIndex,
                                              offset |-> offsetSeconds])]
    IN  IF Throws(s1.video)
        THEN [s1 EXCEPT !.timers = Append(@, offsetSeconds)]
        ELSE [s1 EXCEPT !.video = SetCurrentTime(@, Max(0, offsetSeconds))]

\* MissingSource on a driver that takes the part for loaded before it looks
\* the source up
MissingSource_AfterSwap(s, partIndex) ==
    [s EXCEPT !.sync.rejected = TRUE, !.last = partIndex]

\* MissingSource on a driver that empties the element before it fails
MissingSource_ResetsElement(s, partIndex) ==
    [s EXCEPT !.sync.rejected = TRUE, !.video = Load(@, "")]

\* script.js:60: the call returns a rejected promise, which resyncOnce
\* hands to console.warn (script.js:262, 275)
MissingSource(s, partIndex) == [s EXCEPT !.sync.rejected = TRUE]

\* SwapSource on a driver that seeks as soon as it has called load()
SwapSource_SeeksAtOnce(s, partIndex, key, offsetSeconds) ==
    doSeek([s EXCEPT !.last = partIndex,
                     !.video = Load(@, key),
                     !.sync.loaded = TRUE],
           partIndex, offsetSeconds)

\* SwapSource on a driver that notes the part and registers its handler
\* without assigning the source
SwapSource_PartOnly(s, partIndex, key, offsetSeconds) ==
    [s EXCEPT !.last = partIndex,
              !.sync.loaded = TRUE,
              !.meta = Append(@, [part |-> partIndex,
                                  offset |-> offsetSeconds,
                                  play |-> TRUE])]

\* script.js:93-102: the part is noted, the source set, load() called and
\* onMeta registered, which will seek and play
SwapSource(s, partIndex, key, offsetSeconds) ==
    [s EXCEPT !.last = partIndex,
              !.video = Load(@, key),
              !.sync.loaded = TRUE,
              !.meta = Append(@, [part |-> partIndex,
                                  offset |-> offsetSeconds,
                                  play |-> TRUE])]

\* SeekSameSource on a driver that loads the source again before it seeks
SeekSameSource_Reloads(s, partIndex, offsetSeconds) ==
    [s EXCEPT !.video = Load(@, s.video.src),
              !.meta = Append(@, [part |-> partIndex,
                                  offset |-> offsetSeconds,
                                  play |-> FALSE])]

\* script.js:103-112: the source stays; doSeek at once when the metadata is
\* there, else onMeta2 is registered, which will seek
SeekSameSource(s, partIndex, offsetSeconds) ==
    IF s.video.readyState >= 1
    THEN doSeek(s, partIndex, offsetSeconds)
    ELSE [s EXCEPT !.meta = Append(@, [part |-> partIndex,
                                       offset |-> offsetSeconds,
                                       play |-> FALSE])]

\* script.js:57-115
loadAndSeekTo(s, partIndex, offsetSeconds) ==
    LET key == partIndexToKey(partIndex)
        s1 == [s EXCEPT !.sync.called = TRUE, !.sync.callPart = partIndex,
                        !.sync.callOffset = offsetSeconds]
    IN  IF key \notin sources
        THEN MissingSource(s1, partIndex)
        ELSE IF SrcDiffers(s.video, key)
        THEN SwapSource(s1, partIndex, key, offsetSeconds)
        ELSE SeekSameSource(s1, partIndex, offsetSeconds)

----------------------------------------------------------------------------
(* Resync controller, script.js:250-281 *)

\* PartChanged without the comparison of the parts
PartChanged_OnlyNull(last, partIndex) == last = NULL

\* script.js:261
PartChanged(last, partIndex) == last = NULL \/ last # partIndex

\* DriftExceeds with the tolerance itself counted as drift
DriftExceeds_AtLeast(current, desired) == Abs(current - desired) >= 30

\* script.js:267-269
DriftExceeds(current, desired) == Abs(current - desired) > 30

NoResult == [partIndex |-> -1, offset |-> -1]

NoSync ==
    [kind |-> "none", mode |-> "local", part |-> NULL, offset |-> NULL,
     lastBefore |-> NULL, srcBefore |-> "", current |-> 0, branch |-> "none",
     sought |-> FALSE, threw |-> FALSE, called |-> FALSE, callPart |-> NULL,
     callOffset |-> NULL, rejected |-> FALSE, loaded |-> FALSE,
     resumed |-> FALSE]

\* CheckDrift on a controller that lets the exception of the direct seek end
\* the tick: no fallback, no resume
CheckDrift_ThrowEndsTick(s, partIndex, desired, allowed) ==
    LET current == s.video.currentTime
        s1 == [s EXCEPT !.sync.branch = "same", !.sync.current = current]
    IN  IF DriftExceeds(current, desired) /\ Throws(s1.video)
        THEN [s1 EXCEPT !.sync.sought = TRUE, !.sync.threw = TRUE]
        ELSE LET s2 == IF DriftExceeds(current, desired)
                       THEN [s1 EXCEPT !.video = SetCurrentTime(@, desired),
                                       !.sync.sought = TRUE]
                       ELSE s1
             IN  IF s2.video.paused
                 THEN [s2 EXCEPT !.video = Play(@, allowed),
                                 !.sync.resumed = TRUE]
                 ELSE s2

\* the same-part branch, script.js:265-280
CheckDrift(s, partIndex, desired, allowed) ==
    LET current == s.video.currentTime
        s1 == [s EXCEPT !.sync.branch = "same", !.sync.current = current]
        s2 == IF DriftExceeds(current, desired)
              THEN IF Throws(s1.video)
                   THEN loadAndSeekTo([s1 EXCEPT !.sync.sought = TRUE,
                                                 !.sync.threw = TRUE],
                                      partIndex, desired)
                   ELSE [s1 EXCEPT !.video = SetCurrentTime(@, desired),
                                   !.sync.sought = TRUE]
              ELSE s1
    IN  IF s2.video.paused
        THEN [s2 EXCEPT !.video = Play(@, allowed), !.sync.resumed = TRUE]
        ELSE s2

\* resyncOnce called by kind ("startup", "tick", "toggle") in mode
resyncOnce(s, mode, kind, allowed) ==
    LET now == NowByMode(mode)
        \* script.js:255-281, m being the result of computePartAndOffset(now)
        Run(m) ==
            LET partIndex == m.partIndex
                desired == m.offset
                s0 == [s EXCEPT !.sync =
                          [NoSync EXCEPT !.kind = kind, !.mode = mode,
                                         !.part = partIndex, !.offset = desired,
                                         !.lastBefore = s.last,
                                         !.srcBefore = s.video.src]]
            IN  IF PartChanged(s.last, partIndex)
                THEN loadAndSeekTo([s0 EXCEPT !.sync.branch = "load"],
                                   partIndex, desired)
                ELSE CheckDrift(s0, partIndex, desired, allowed)
    IN  CHOOSE r \in { Run(m) : m \in {computePartAndOffset(now)} } : TRUE

----------------------------------------------------------------------------
(* Persisted settings, script.js:211-239 *)

\* A stored item as loadSettings can tell it apart.  kind is "absent" (no
\* item, or an empty one), "unparsable" (JSON.parse throws), "null" (the JSON
\* text null) or "object".  Of an object, muted is "true", "false" or "other"
\* (absent or not a boolean), volume is a number in tenths or NotANumber
\* (absent or not a number), and timezoneMode is a string, "" when the field
\* is absent or falsy.
NotANumber == -1

StoredItem(kind, m, v, mode) ==
    [kind |-> kind, muted |-> m, volume |-> v, timezoneMode |-> mode]

NoItem == StoredItem("absent", "other", NotANumber, "")

\* saveSettings that writes the default mode instead of the current one
saveSettings_DefaultMode(m, v, mode) ==
    StoredItem("object", IF m THEN "true" ELSE "false", v, "local")

\* script.js:214-225: the item written for video.muted = m, video.volume = v
\* and timezoneMode = mode
saveSettings(m, v, mode) ==
    StoredItem("object", IF m THEN "true" ELSE "false", v, mode)

\* script.js:227-239: the settings after loadSettings has read item st, cur
\* being the settings before.  A volume outside [0, 1] makes the assignment
\* of line 232 throw, which ends the function in the catch of line 236.
loadSettings(st, cur) ==
    IF st.kind # "object" THEN cur
    ELSE IF st.volume # NotANumber /\ st.volume \notin 0 .. 10 THEN cur
    ELSE LET c1 == IF st.volume # NotANumber
                   THEN [cur EXCEPT !.volume = st.volume] ELSE cur
             c2 == IF st.muted \in {"true", "false"}
                   THEN [c1 EXCEPT !.muted = (st.muted = "true")] ELSE c1
         IN  IF st.timezoneMode # ""
             THEN [c2 EXCEPT !.timezoneMode = st.timezoneMode]
             ELSE c2

\* script.js:141: the text updateControlsUI gives #tzLabel
TzLabel(mode) == IF mode = "local" THEN "Local" ELSE "Tokyo"

\* script.js:256: key.toUpperCase()
PartName(i) == IF i = 0 THEN "P1" ELSE IF i = 1 THEN "P2" ELSE IF i = 2 THEN "P3" ELSE "P1"

NoDisplay == [localTime |-> -1, partName |-> "", tzLabel |-> ""]

\* script.js:252, 256 and the updateControlsUI of lines 262 and 280: the texts
\* after a resyncOnce call that left the session s
ShowSync(s, mode) ==
    [localTime |-> NowByMode(mode),
     partName |-> PartName(s.sync.part),
     tzLabel |-> IF s.sync.branch = "same" \/ s.sync.rejected
                 THEN TzLabel(mode) ELSE display.tzLabel]

----------------------------------------------------------------------------
(* The page: the session's state, its handlers and the element's events *)

Session ==
    [video |-> video, meta |-> metaListeners, seeked |-> seekedListeners,
     timers |-> retryTimers, last |-> lastPartIndex, sync |-> lastSync]

Install(s) ==
    /\ Len(s.meta) + Len(s.seeked) <= MaxListeners
    /\ Len(s.timers) <= MaxTimers
    /\ video' = s.video
    /\ metaListeners' = s.meta
    /\ seekedListeners' = s.seeked
    /\ retryTimers' = s.timers
    /\ lastPartIndex' = s.last
    /\ lastSync' = s.sync

\* the clock readings of the controller's runs: seconds after 08:59:20 UTC of day 2
SyncBase == 2 * MsPerDay + 8 * MsPerHour + 59 * MsPerMinute + 20 * 1000
SyncReadings == { SyncBase + d * 1000 : d \in {0, 30, 40, 80} }
SyncZones == { z \in Zones : z.rule = "none" /\ z.std \in {0, 300} }

\* the zones a browser that throws on an early seek is run in; it is run
\* with every source present and media of full length
ThrowingZones == { z \in SyncZones : z.std = 0 }

\* by how many seconds playback may gain or lose against the clock between readings
Jitter == {0, 30, 40}

SourceConfigs == { Keys, {"p1", "p2"} }
MediaDurations == { PART_LENGTH_SECONDS, 20000 }

\* the element as the page's markup may hand it to the script: no source, or
\* a source that is still loading or has delivered its metadata
InitialVideos(srcs, dur) ==
    {EmptyVideo}
    \cup { [EmptyVideo EXCEPT !.src = k, !.loading = TRUE] : k \in srcs }
    \cup { [EmptyVideo EXCEPT !.src = k, !.readyState = 1, !.duration = dur,
                             !.seekable = TRUE] : k \in srcs }

Init ==
    /\ PomodoroConstructed
    /\ durationInputs = [work |-> 1, short |-> 1, long |-> 1]
    /\ browserThrows \in BOOLEAN
    /\ zone \in IF browserThrows THEN ThrowingZones ELSE SyncZones
    /\ clock \in SyncReadings
    /\ timezoneMode \in {"local", "tokyo"}
    /\ sources \in IF browserThrows THEN {Keys} ELSE SourceConfigs
    /\ mediaDuration \in IF browserThrows THEN {PART_LENGTH_SECONDS}
                                        ELSE MediaDurations
    /\ video \in InitialVideos(sources, mediaDuration)
    /\ metaListeners = <<>>
    /\ seekedListeners = <<>>
    /\ retryTimers = <<>>
    /\ completed = {}
    /\ lastPartIndex = NULL
    /\ started = FALSE
    /\ lastSync = NoSync
    /\ date = -1
    /\ mapped = NoResult
    /\ mappedNext = NoResult
    /\ mappedAgain = NoResult
    /\ mpc = "off"
    /\ muted = TRUE
    /\ volume = 10
    /\ savedVolume = 10
    /\ firstUserClick = TRUE
    /\ overlayHidden = FALSE
    /\ fullscreen = FALSE
    /\ display = [NoDisplay EXCEPT !.tzLabel = TzLabel(timezoneMode)]
    /\ storage = saveSettings(muted, volume, timezoneMode)
    /\ settingsLoaded = TRUE
    /\ unloadedMode = timezoneMode
    /\ reloads = 0

\* script.js:361: the resync of the script's top level
Startup ==
    /\ settingsLoaded
    /\ ~started
    /\ started' = TRUE
    /\ \E allowed \in BOOLEAN :
          \E s \in {resyncOnce(Session, timezoneMode, "startup", allowed)} :
              Install(s) /\ display' = ShowSync(s, timezoneMode)
    /\ UNCHANGED <<clock, timezoneMode, completed, envVars, pomodoroVars, mapperVars,
                   controlVars, settingsVars>>

\* TickArmed on a scheduler that a failed resync stops
TickArmed_UntilFailure == started /\ ~lastSync.rejected

\* script.js:364: the interval is set when the script starts and never cleared
TickArmed == started

\* Tick on a controller that cancels the outstanding calls' handlers before
\* it evaluates
Tick_CancelsOutstanding ==
    /\ TickArmed
    /\ \E allowed \in BOOLEAN :
          \E s \in {resyncOnce([Session EXCEPT !.meta = <<>>, !.seeked = <<>>],
                               timezoneMode, "tick", allowed)} :
              Install(s) /\ display' = ShowSync(s, timezoneMode)
    /\ UNCHANGED <<clock, timezoneMode, started, completed, envVars, pomodoroVars, mapperVars,
                   controlVars, settingsVars>>

\* script.js:364: setInterval(resyncOnce, 5000)
Tick ==
    /\ TickArmed
    /\ \E allowed \in BOOLEAN :
          \E s \in {resyncOnce(Session, timezoneMode, "tick", allowed)} :
              Install(s) /\ display' = ShowSync(s, timezoneMode)
    /\ UNCHANGED <<clock, timezoneMode, started, completed, envVars, pomodoroVars, mapperVars,
                   controlVars, settingsVars>>

\* TzToggle with the resync reading the clock in the mode before the click
TzToggle_StaleMode ==
    /\ started
    /\ timezoneMode' = IF timezoneMode = "local" THEN "tokyo" ELSE "local"
    /\ \E allowed \in BOOLEAN :
          \E s \in {resyncOnce(Session, timezoneMode, "toggle", allowed)} :
              /\ Install(s)
              /\ display' = [ShowSync(s, timezoneMode) EXCEPT
                                !.tzLabel = TzLabel(timezoneMode')]
    /\ storage' = saveSettings(muted, volume, timezoneMode')
    /\ UNCHANGED <<clock, started, completed, envVars, pomodoroVars, mapperVars, controlVars,
                   settingsLoaded, unloadedMode, reloads>>

\* script.js:202-208: the click handler of the timezone toggle
TzToggle ==
    /\ started
    /\ timezoneMode' = IF timezoneMode = "local" THEN "tokyo" ELSE "local"
    /\ \E allowed \in BOOLEAN :
          \E s \in {resyncOnce(Session, timezoneMode', "toggle", allowed)} :
              /\ Install(s)
              /\ display' = [ShowSync(s, timezoneMode') EXCEPT
                                !.tzLabel = TzLabel(timezoneMode')]
    /\ storage' = saveSettings(muted, volume, timezoneMode')
    /\ UNCHANGED <<clock, started, completed, envVars, pomodoroVars, mapperVars, controlVars,
                   settingsLoaded, unloadedMode, reloads>>

\* time passes: the clock reaches a later reading, and a playing element's
\* position moves on with it, give or take the jitter; the readings are ten
\* seconds and more apart, so that a 300 ms timer has fired by the next one
ClockAdvance ==
    /\ retryTimers = <<>>
    /\ \E r \in SyncReadings, j \in Jitter :
          /\ r > clock
          /\ clock' = r
          /\ video' =
                IF ~video.paused /\ video.readyState >= 1 /\ ~video.seeking
                THEN [video EXCEPT !.currentTime =
                         Max(0, Min(video.duration, @ + ((r - clock) \div 1000) + j))]
                ELSE video
    /\ UNCHANGED <<timezoneMode, metaListeners, seekedListeners, retryTimers,
                   completed, lastPartIndex, started, lastSync, envVars, pomodoroVars,
                   mapperVars, controlVars, display, settingsVars>>

\* the element once its metadata is in: the duration is known, a default
\* playback start position set meanwhile is sought, and ready says whether
\* there is a range to seek in yet
MetadataArrives(v, ready) ==
    LET v1 == [v EXCEPT !.readyState = 1, !.loading = FALSE,
                        !.duration = mediaDuration, !.seekable = ready]
    IN  IF v.currentTime > 0
        THEN [v1 EXCEPT !.currentTime = Min(v.currentTime, mediaDuration),
                        !.seeking = TRUE]
        ELSE v1

\* script.js:97-102 (onMeta) and 108-111 (onMeta2), run in registration order
RECURSIVE RunMetaListeners(_, _, _)
RunMetaListeners(s, listeners, allowed) ==
    IF listeners = <<>> THEN s
    ELSE LET l == Head(listeners)
             s1 == doSeek(s, l.part, l.offset)
             s2 == IF l.play THEN [s1 EXCEPT !.video = Play(@, allowed)] ELSE s1
         IN  RunMetaListeners(s2, Tail(listeners), allowed)

\* the element fires 'loadedmetadata'
FireLoadedMetadata ==
    /\ video.loading
    /\ \E allowed \in BOOLEAN, ready \in {TRUE, ~browserThrows} :
          \E s \in {RunMetaListeners(
                       [Session EXCEPT !.video = MetadataArrives(@, ready),
                                       !.meta = <<>>],
                       metaListeners, allowed)} :
              Install(s)
    /\ UNCHANGED <<clock, timezoneMode, started, completed, envVars, pomodoroVars, mapperVars,
                   controlVars, display, settingsVars>>

\* FireSeeked with the controller's part set when the call completes
FireSeeked_SetsLast ==
    /\ video.seeking
    /\ seekedListeners # <<>>
    /\ video' = [video EXCEPT !.seeking = FALSE]
    /\ seekedListeners' = <<>>
    /\ completed' = completed \cup
                        { seekedListeners[n].part : n \in DOMAIN seekedListeners }
    /\ lastPartIndex' = seekedListeners[Len(seekedListeners)].part
    /\ display' = [display EXCEPT !.tzLabel = TzLabel(timezoneMode)]
    /\ UNCHANGED <<clock, timezoneMode, metaListeners, retryTimers, started,
                   lastSync, envVars, pomodoroVars, mapperVars, controlVars, settingsVars>>

\* script.js:75-78 (onSeeked): the element fires 'seeked'
FireSeeked ==
    /\ video.seeking
    /\ video' = [video EXCEPT !.seeking = FALSE]
    /\ seekedListeners' = <<>>
    /\ completed' = completed \cup
                        { seekedListeners[n].part : n \in DOMAIN seekedListeners }
    /\ display' = IF seekedListeners # <<>>
                  THEN [display EXCEPT !.tzLabel = TzLabel(timezoneMode)]
                  ELSE display
    /\ UNCHANGED <<clock, timezoneMode, metaListeners, retryTimers,
                   lastPartIndex, started, lastSync, envVars, pomodoroVars, mapperVars,
                   controlVars, settingsVars>>

\* the element gets a range to seek in
BecomesSeekable ==
    /\ video.readyState >= 1
    /\ ~video.seekable
    /\ video' = [video EXCEPT !.seekable = TRUE]
    /\ UNCHANGED <<clock, timezoneMode, metaListeners, seekedListeners,
                   retryTimers, completed, lastPartIndex, started, lastSync,
                   envVars, pomodoroVars, mapperVars, controlVars, display, settingsVars>>

\* script.js:86-88: the 300 ms timer of a doSeek whose assignment threw
\* fires; a second failure is swallowed
RetryFires ==
    /\ retryTimers # <<>>
    /\ retryTimers' = Tail(retryTimers)
    /\ video' = IF Throws(video) THEN video
                ELSE SetCurrentTime(video, Max(0, Head(retryTimers)))
    /\ UNCHANGED <<clock, timezoneMode, metaListeners, seekedListeners,
                   completed, lastPartIndex, started, lastSync, envVars, pomodoroVars,
                   mapperVars, controlVars, display, settingsVars>>

Next ==
    \/ Startup
    \/ Tick
    \/ TzToggle
    \/ ClockAdvance
    \/ FireLoadedMetadata
    \/ FireSeeked
    \/ BecomesSeekable
    \/ RetryFires

Spec == Init /\ [][Next]_vars

\* The session with all three mapping entries and media of the full length,
\* the timer of script.js:364 firing for ever and the element delivering
\* every event it owes.
LiveInit ==
    /\ Init
    /\ sources = Keys
    /\ mediaDuration = PART_LENGTH_SECONDS

SpecLive ==
    /\ LiveInit
    /\ [][Next]_vars
    /\ WF_vars(Startup)
    /\ WF_vars(Tick)
    /\ WF_vars(FireLoadedMetadata)
    /\ WF_vars(FireSeeked)
    /\ WF_vars(BecomesSeekable)
    /\ WF_vars(RetryFires)

----------------------------------------------------------------------------
(* The page with its controls: settings, mute, volume, fullscreen, overlay, *)
(* keyboard shortcuts and reloads, script.js:144-209, 283-294, 366-429     *)

\* the handlers of this section leave the playback session alone, except
\* that an unmuting handler calls video.play()
sessionVars == <<metaListeners, seekedListeners, retryTimers, completed,
                 lastPartIndex, started, lastSync>>

\* the values the volume slider may report: tenths, or NotANumber for a
\* value parseFloat cannot read
SliderValues == {NotANumber, 0, 5, 10}

\* the items a visit may find in localStorage
StoredItems ==
    { NoItem,
      StoredItem("unparsable", "other", NotANumber, ""),
      StoredItem("null", "other", NotANumber, ""),
      StoredItem("object", "true", 10, "local"),
      StoredItem("object", "false", 5, "tokyo"),
      StoredItem("object", "other", NotANumber, "tokyo"),
      StoredItem("object", "true", 20, "tokyo"),
      StoredItem("object", "false", 0, ""),
      StoredItem("object", "other", 5, "paris") }

\* the state a page starts its script in: the markup's element (muted, no
\* source), the script's initial values (script.js:23, 25, 54, 378)
PageInit ==
    /\ PomodoroConstructed
    /\ durationInputs = [work |-> 1, short |-> 1, long |-> 1]
    /\ zone = [std |-> 0, rule |-> "none"]
    /\ clock = SyncBase
    /\ timezoneMode = "local"
    /\ sources = Keys
    /\ mediaDuration = PART_LENGTH_SECONDS
    /\ browserThrows = FALSE
    /\ video = EmptyVideo
    /\ metaListeners = <<>>
    /\ seekedListeners = <<>>
    /\ retryTimers = <<>>
    /\ completed = {}
    /\ lastPartIndex = NULL
    /\ started = FALSE
    /\ lastSync = NoSync
    /\ date = -1
    /\ mapped = NoResult
    /\ mappedNext = NoResult
    /\ mappedAgain = NoResult
    /\ mpc = "off"
    /\ muted = TRUE
    /\ volume = 10
    /\ savedVolume = 10
    /\ firstUserClick = TRUE
    /\ overlayHidden = FALSE
    /\ fullscreen = FALSE
    /\ display = NoDisplay
    /\ storage \in StoredItems
    /\ settingsLoaded = FALSE
    /\ unloadedMode = "none"
    /\ reloads = 0

\* script.js:287-294: loadSettings() and the first updateControlsUI()
LoadSettings ==
    /\ ~settingsLoaded
    /\ settingsLoaded' = TRUE
    /\ LET r == loadSettings(storage, [muted |-> muted, volume |-> volume,
                                       timezoneMode |-> timezoneMode])
       IN  /\ muted' = r.muted
           /\ volume' = r.volume
           /\ timezoneMode' = r.timezoneMode
           /\ display' = [display EXCEPT !.tzLabel = TzLabel(r.timezoneMode)]
    /\ UNCHANGED <<clock, video, sessionVars, savedVolume, firstUserClick,
                   overlayHidden, fullscreen, storage, unloadedMode, reloads,
                   envVars, pomodoroVars, mapperVars>>

\* script.js:145-162: the click handler of the mute button
MuteClick ==
    /\ started
    /\ IF ~muted
       THEN /\ savedVolume' = IF volume # 0 THEN volume
                              ELSE IF savedVolume # 0 THEN savedVolume ELSE 10
            /\ muted' = TRUE
            /\ UNCHANGED <<volume, video>>
       ELSE /\ muted' = FALSE
            /\ volume' = IF savedVolume # 0 THEN savedVolume ELSE 10
            /\ \E allowed \in BOOLEAN : video' = Play(video, allowed)
            /\ UNCHANGED savedVolume
    /\ display' = [display EXCEPT !.tzLabel = TzLabel(timezoneMode)]
    /\ storage' = saveSettings(muted', volume', timezoneMode)
    /\ UNCHANGED <<clock, timezoneMode, sessionVars, firstUserClick,
                   overlayHidden, fullscreen, settingsLoaded, unloadedMode,
                   reloads, envVars, pomodoroVars, mapperVars>>

\* script.js:167-181: the input handler of the volume slider
VolumeInput ==
    /\ started
    /\ \E v \in SliderValues :
          LET vol == IF v = NotANumber THEN 10 ELSE v
          IN  /\ volume' = vol
              /\ IF vol > 0
                 THEN muted' = FALSE /\ savedVolume' = vol
                 ELSE muted' = TRUE /\ UNCHANGED savedVolume
    /\ display' = [display EXCEPT !.tzLabel = TzLabel(timezoneMode)]
    /\ storage' = saveSettings(muted', volume', timezoneMode)
    /\ UNCHANGED <<clock, timezoneMode, video, sessionVars, firstUserClick,
                   overlayHidden, fullscreen, settingsLoaded, unloadedMode,
                   reloads, envVars, pomodoroVars, mapperVars>>

\* script.js:186-198: the click handler of the fullscreen button; the
\* browser may refuse the request
FullscreenClick ==
    /\ started
    /\ \E granted \in BOOLEAN :
          fullscreen' = IF granted THEN ~fullscreen ELSE fullscreen
    /\ UNCHANGED <<clock, timezoneMode, video, sessionVars, muted, volume,
                   savedVolume, firstUserClick, overlayHidden, display,
                   settingsVars, envVars, pomodoroVars, mapperVars>>

\* script.js:386-401: the click handler of the video
VideoClick ==
    /\ started
    /\ IF firstUserClick /\ muted
       THEN /\ muted' = FALSE
            /\ volume' = IF savedVolume # 0 THEN savedVolume ELSE 10
            /\ \E allowed \in BOOLEAN : video' = Play(video, allowed)
            /\ display' = [display EXCEPT !.tzLabel = TzLabel(timezoneMode)]
       ELSE UNCHANGED <<muted, volume, video, display>>
    /\ firstUserClick' = FALSE
    /\ overlayHidden' = ~overlayHidden
    /\ UNCHANGED <<clock, timezoneMode, sessionVars, savedVolume, fullscreen,
                   settingsVars, envVars, pomodoroVars, mapperVars>>

\* script.js:404-409: a click inside the overlay does not reach the video
OverlayClick ==
    /\ started
    /\ UNCHANGED vars

\* KeyDown acting on the arrow keys as well: the position jumps back to the start
KeyDown_Seeks ==
    /\ started
    /\ video' = SetCurrentTime(video, 0)
    /\ UNCHANGED <<clock, timezoneMode, sessionVars, controlVars, display,
                   settingsVars, envVars, pomodoroVars, mapperVars>>

\* script.js:412-429: the keydown handler; typing says whether the focus is
\* in an input, a textarea, a select or an editable element
KeyDown ==
    /\ started
    /\ \E k \in {"m", "f", "x"}, typing \in BOOLEAN :
          IF typing THEN UNCHANGED vars
          ELSE IF k = "m" THEN MuteClick
          ELSE IF k = "f" THEN FullscreenClick
          ELSE UNCHANGED vars

\* ClockTick falling back to the visitor's own time
ClockTick_ResetsMode ==
    /\ started
    /\ timezoneMode' = "local"
    /\ display' = [display EXCEPT !.localTime = NowByMode("local")]
    /\ UNCHANGED <<clock, video, sessionVars, controlVars, settingsVars,
                   envVars, pomodoroVars, mapperVars>>

\* script.js:367-370: the clock display, every second
ClockTick ==
    /\ started
    /\ display' = [display EXCEPT !.localTime = getNowByMode]
    /\ UNCHANGED <<clock, timezoneMode, video, sessionVars, controlVars,
                   settingsVars, envVars, pomodoroVars, mapperVars>>

\* the visitor reloads the page: the script starts again from its initial
\* values on a new element, and localStorage keeps its item
Reload ==
    /\ started
    /\ reloads < MaxReloads
    /\ reloads' = reloads + 1
    /\ unloadedMode' = timezoneMode
    /\ timezoneMode' = "local"
    /\ video' = EmptyVideo
    /\ metaListeners' = <<>>
    /\ seekedListeners' = <<>>
    /\ retryTimers' = <<>>
    /\ completed' = {}
    /\ lastPartIndex' = NULL
    /\ started' = FALSE
    /\ lastSync' = NoSync
    /\ muted' = TRUE
    /\ volume' = 10
    /\ savedVolume' = 10
    /\ firstUserClick' = TRUE
    /\ overlayHidden' = FALSE
    /\ fullscreen' = FALSE
    /\ display' = NoDisplay
    /\ settingsLoaded' = FALSE
    /\ UNCHANGED <<clock, storage, envVars, pomodoroVars, mapperVars>>

PageNext ==
    \/ LoadSettings
    \/ Startup
    \/ Tick
    \/ TzToggle
    \/ MuteClick
    \/ VolumeInput
    \/ FullscreenClick
    \/ VideoClick
    \/ OverlayClick
    \/ KeyDown
    \/ ClockTick
    \/ FireLoadedMetadata
    \/ FireSeeked
    \/ Reload

SpecPage == PageInit /\ [][PageNext]_vars

----------------------------------------------------------------------------
(* The mapper pipeline: one clock reading handed to the cycle mapper *)

Days == 2 .. (1 + MaxDays)
Hours == 0 .. 23
Minutes == {0, 30, 59}
Seconds == {0, 59}
Millis == {0, 500, 999}

ClockReadings ==
    { day * MsPerDay + h * MsPerHour + m * MsPerMinute + s * 1000 + ms :
        day \in Days, h \in Hours, m \in Minutes, s \in Seconds, ms \in Millis }

MapperInit ==
    /\ PomodoroConstructed
    /\ durationInputs = [work |-> 1, short |-> 1, long |-> 1]
    /\ zone \in Zones
    /\ clock \in ClockReadings
    /\ timezoneMode \in {"local", "tokyo"}
    /\ date = -1
    /\ mapped = NoResult
    /\ mappedNext = NoResult
    /\ mappedAgain = NoResult
    /\ mpc = "clock"
    /\ sources = Keys
    /\ mediaDuration = PART_LENGTH_SECONDS
    /\ browserThrows = FALSE
    /\ video = EmptyVideo
    /\ metaListeners = <<>>
    /\ seekedListeners = <<>>
    /\ retryTimers = <<>>
    /\ completed = {}
    /\ lastPartIndex = NULL
    /\ started = FALSE
    /\ lastSync = NoSync
    /\ muted = TRUE
    /\ volume = 10
    /\ savedVolume = 10
    /\ firstUserClick = TRUE
    /\ overlayHidden = FALSE
    /\ fullscreen = FALSE
    /\ display = [NoDisplay EXCEPT !.tzLabel = TzLabel(timezoneMode)]
    /\ storage = saveSettings(muted, volume, timezoneMode)
    /\ settingsLoaded = TRUE
    /\ unloadedMode = timezoneMode
    /\ reloads = 0

\* script.js:251: const now = getNowByMode()
ReadClock ==
    /\ mpc = "clock"
    /\ date' = getNowByMode
    /\ mpc' = "map"
    /\ UNCHANGED <<clock, timezoneMode, mapped, mappedNext, mappedAgain, envVars, pomodoroVars,
                   playerVars, controlVars, display, settingsVars>>

\* MapInstant on a mapper that works on its argument instead of a copy
\* (const base = date): setHours moves the caller's Date to the anchor
MapInstant_Aliased ==
    /\ mpc = "map"
    /\ mapped' = computePartAndOffset(date)
    /\ mappedNext' = computePartAndOffset(date + 1000)
    /\ date' = setHours(date)
    /\ mpc' = "done"
    /\ UNCHANGED <<clock, timezoneMode, mappedAgain, envVars, pomodoroVars, playerVars,
                   controlVars, display, settingsVars>>

\* script.js:254: computePartAndOffset(now), and of the instant one second
\* later; script.js:33 copies the argument, so the caller's Date stays
MapInstant ==
    /\ mpc = "map"
    /\ mapped' = computePartAndOffset(date)
    /\ mappedNext' = computePartAndOffset(date + 1000)
    /\ mpc' = "done"
    /\ UNCHANGED <<clock, timezoneMode, date, mappedAgain, envVars, pomodoroVars, playerVars,
                   controlVars, display, settingsVars>>

\* script.js:32-48: a second call, handed the Date of the first
MapAgain ==
    /\ mpc = "done"
    /\ mappedAgain' = computePartAndOffset(date)
    /\ mpc' = "again"
    /\ UNCHANGED <<clock, timezoneMode, date, mapped, mappedNext, envVars, pomodoroVars,
                   playerVars, controlVars, display, settingsVars>>

MapperNext == ReadClock \/ MapInstant \/ MapAgain

SpecMapper == MapperInit /\ [][MapperNext]_vars

----------------------------------------------------------------------------
(* Claims about the cycle mapper and the clock source, under SpecMapper *)

\* the wall-clock time of day of the Date d, in milliseconds since local midnight
TimeOfDay(d) == LocalTime(d) % MsPerDay

\* the reference tiling of the day (script.js:4-6)
TilePart(d) ==
    IF TimeOfDay(d) >= 1 * MsPerHour /\ TimeOfDay(d) < 9 * MsPerHour THEN 0
    ELSE IF TimeOfDay(d) >= 9 * MsPerHour /\ TimeOfDay(d) < 17 * MsPerHour THEN 1
    ELSE 2

\* the wall-clock milliseconds since the start of the Date's tile
TileElapsed(d) ==
    IF TilePart(d) = 0 THEN TimeOfDay(d) - 1 * MsPerHour
    ELSE IF TilePart(d) = 1 THEN TimeOfDay(d) - 9 * MsPerHour
    ELSE IF TimeOfDay(d) >= 17 * MsPerHour THEN TimeOfDay(d) - 17 * MsPerHour
    ELSE TimeOfDay(d) + 7 * MsPerHour

InRange(r) == r.partIndex \in {0, 1, 2} /\ r.offset \in 0 .. (28800 - 1)

\* C1: for every instant handed to computePartAndOffset, before or after
\* 01:00, the part index is 0, 1 or 2 and the offset is an integer in [0, 28800).
C1_MappingInRange ==
    mpc = "done" => InRange(mapped) /\ InRange(mappedNext)

\* C1's case: an instant before 01:00, which the mapper puts in part 2
C1_Witness ==
    mpc = "done" /\ TimeOfDay(date) < 1 * MsPerHour /\ mapped.partIndex = 2

\* C2: computePartAndOffset agrees with the reference tiling of the day:
\* [01:00, 09:00) is part 0, [09:00, 17:00) part 1, [17:00, 24:00) and
\* [00:00, 01:00) part 2, and the offset is the whole seconds since the
\* part's start.
C2_AgreesWithTiling ==
    mpc = "done" =>
        mapped = [partIndex |-> TilePart(date),
                  offset |-> TileElapsed(date) \div 1000]

\* C3: at 01:00:00.000, 09:00:00.000 and 17:00:00.000 the mapper returns the
\* later part with offset 0, and less than one second before a boundary it
\* returns the earlier part with offset 28799.
C3_Boundaries ==
    mpc = "done" =>
        /\ TileElapsed(date) = 0 =>
              mapped = [partIndex |-> TilePart(date), offset |-> 0]
        /\ TileElapsed(date) > 8 * MsPerHour - 1000 =>
              mapped = [partIndex |-> TilePart(date), offset |-> 28799]

\* C4: when t and t + 1 s lie in the same part the offset grows by exactly 1
\* and the part index stays; when t + 1 s crosses a boundary the part index
\* advances by one modulo 3 and the offset wraps to a smaller value.
C4_Continuity ==
    mpc = "done" =>
        IF TilePart(date) = TilePart(date + 1000)
        THEN /\ mappedNext.partIndex = mapped.partIndex
             /\ mappedNext.offset = mapped.offset + 1
        ELSE /\ mappedNext.partIndex = (mapped.partIndex + 1) % 3
             /\ mappedNext.offset < mapped.offset

\* C5: in 'tokyo' mode the wall-clock reading of the Date getNowByMode hands
\* to the mapper is UTC-now plus exactly 9 hours, whatever the visitor's time
\* zone; in 'local' mode it is the visitor's local wall-clock time.
C5_TokyoIsUtcPlusNine ==
    mpc # "clock" =>
        /\ timezoneMode = "tokyo" => LocalTime(date) = clock + 9 * MsPerHour
        /\ timezoneMode = "local" => LocalTime(date) = LocalTime(clock)

----------------------------------------------------------------------------
(* Claims about the resync controller and the playback driver, under Spec *)

Synced == lastSync.kind # "none"

\* C6: a resync that finds the controller Uninitialized, or the mapped part
\* different from lastPartIndex, calls loadAndSeekTo(targetPart, targetOffset)
\* and assigns no media position itself; a resync that finds the mapped part
\* equal to lastPartIndex calls loadAndSeekTo only after a rejected direct seek.
C6_FullLoadOnPartChange ==
    Synced =>
        /\ (lastSync.lastBefore = NULL \/ lastSync.lastBefore # lastSync.part) =>
              /\ lastSync.called
              /\ lastSync.callPart = lastSync.part
              /\ lastSync.callOffset = lastSync.offset
              /\ ~lastSync.sought
        /\ lastSync.lastBefore = lastSync.part =>
              (lastSync.called => lastSync.threw)

\* C6's case: a tick in Synced(0) whose mapped part is 1
C6_Witness ==
    /\ lastSync.kind = "tick"
    /\ lastSync.lastBefore = 0
    /\ lastSync.part = 1
    /\ lastSync.called

\* C7: a resync in the same part issues a corrective seek exactly if the
\* position is more than 30 seconds away from the target offset.
C7_SeekIffDriftOver30 ==
    lastSync.branch = "same" =>
        (lastSync.sought <=> Abs(lastSync.current - lastSync.offset) > 30)

\* C7's case: a position exactly 30 seconds behind the target, left alone
C7_Witness ==
    /\ lastSync.branch = "same"
    /\ lastSync.current = lastSync.offset - 30
    /\ ~lastSync.sought

\* C8: the same-part path of resyncOnce leaves the loaded source, lastPartIndex
\* and the timezone mode as they were and does not call load().
C8_DriftPathKeepsSource ==
    lastSync.branch = "same" =>
        /\ ~lastSync.loaded
        /\ video.src = lastSync.srcBefore
        /\ lastPartIndex = lastSync.lastBefore
        /\ timezoneMode = lastSync.mode

\* C8's case: a tick whose direct seek was rejected and fell back to loadAndSeekTo
C8_Witness ==
    /\ lastSync.branch = "same"
    /\ lastSync.kind = "tick"
    /\ lastSync.threw
    /\ lastSync.called
    /\ ~lastSync.rejected

\* C9: once a resync's loadAndSeekTo has completed, lastPartIndex is the part
\* computePartAndOffset returned at the most recent resync.
C9_LoadedPartIsMappedPart ==
    (Synced /\ completed # {}) => lastPartIndex = lastSync.part

C11_CompletionSyncs ==
    [][\A p \in completed' \ completed : lastPartIndex' = p]_vars

\* C12: a resync whose loadAndSeekTo fails for a missing mapping entry leaves
\* the element (source, position), lastPartIndex and the registered listeners
\* as they were, and returns normally.
C12_MissingSourceKeepsState ==
    [][(lastSync'.rejected /\ lastSync' # lastSync) =>
          /\ video' = video
          /\ lastPartIndex' = lastPartIndex
          /\ metaListeners' = metaListeners
          /\ seekedListeners' = seekedListeners
          /\ completed' = completed
          /\ started']_vars

\* C12's case: a toggle to a part without mapping entry while part 0 plays
C12_Witness ==
    /\ lastSync.kind = "toggle"
    /\ lastSync.rejected
    /\ lastSync.part = 2
    /\ lastPartIndex = 0
    /\ video.src = "p1"
    /\ video.currentTime > 0

\* C13: while the mapping entry of the mapped part is missing, every resync
\* calls loadAndSeekTo for that part and is rejected, lastPartIndex never
\* becomes that part, and the part and source loaded before stay.
C13_MissingEntryKeepsFailing ==
    (Synced /\ partIndexToKey(lastSync.part) \notin sources) =>
        /\ lastSync.called
        /\ lastSync.callPart = lastSync.part
        /\ lastSync.rejected
        /\ lastPartIndex # lastSync.part
        /\ lastPartIndex = lastSync.lastBefore
        /\ video.src = lastSync.srcBefore

\* C13's case: a tick that fails again after an earlier resync failed, with
\* part 0 still loaded
C13_Witness ==
    /\ lastSync.kind = "tick"
    /\ lastSync.rejected
    /\ lastSync.lastBefore = 0
    /\ lastPartIndex = 0
    /\ video.src = "p1"

ListenerCount == Len(metaListeners) + Len(seekedListeners)

InSync ==
    LET m == computePartAndOffset(getNowByMode)
    IN  /\ lastPartIndex = m.partIndex
        /\ Abs(video.currentTime - m.offset) <= 30

C16_ToggleResyncsInNewMode ==
    [][timezoneMode' # timezoneMode =>
          /\ timezoneMode' = (IF timezoneMode = "local" THEN "tokyo" ELSE "local")
          /\ clock' = clock
          /\ lastSync'.kind = "toggle"
          /\ lastSync'.mode = timezoneMode'
          /\ lastSync'.part =
                computePartAndOffset(NowByMode(timezoneMode')).partIndex
          /\ lastSync'.offset =
                computePartAndOffset(NowByMode(timezoneMode')).offset]_vars

\* C16's case: a toggle to 'tokyo' whose resync maps to part 2 while part 0 is loaded
C16_Witness ==
    /\ lastSync.kind = "toggle"
    /\ timezoneMode = "tokyo"
    /\ lastSync.mode = "tokyo"
    /\ lastSync.lastBefore = 0
    /\ lastSync.part = 2

----------------------------------------------------------------------------
(* Claims about the settings and the controls, under SpecPage *)

\* C17: the timezone mode changes only in the toggle's click handler, in
\* loadSettings at startup, and when a reload starts the script afresh; ticks,
\* the clock display, mute, volume, fullscreen, clicks and keys leave it.
C17_OnlyToggleChangesMode ==
    [][timezoneMode' # timezoneMode =>
          \/ /\ lastSync'.kind = "toggle"
             /\ lastSync' # lastSync
             /\ lastSync'.mode = timezoneMode'
          \/ ~settingsLoaded /\ settingsLoaded'
          \/ settingsLoaded /\ ~settingsLoaded']_vars

\* C17's case: the mode is 'tokyo' after the other controls have all been used
C17_Witness ==
    /\ timezoneMode = "tokyo"
    /\ lastSync.kind = "tick"
    /\ ~muted
    /\ volume = 5
    /\ fullscreen
    /\ overlayHidden

C19_ChangesArePersisted ==
    [][(/\ settingsLoaded
        /\ settingsLoaded'
        /\ \/ muted' # muted
           \/ volume' # volume
           \/ timezoneMode' # timezoneMode) =>
          storage' = saveSettings(muted', volume', timezoneMode')]_vars

\* C20: whatever the stored item, the mode after loadSettings is 'local' or
\* 'tokyo', and 'local' when the item is absent or malformed.
C20_ModeIsLocalOrTokyo ==
    settingsLoaded =>
        /\ timezoneMode \in {"local", "tokyo"}
        /\ (~started /\ storage.kind # "object") => timezoneMode = "local"

-----------------------------------------------------------------------------
(* Playback driver and its callers, script.js:57-115, 250-281 *)

C22_PausedIsResumed ==
    [][(lastSync' # lastSync /\ video.paused) =>
          \/ lastSync'.resumed
          \/ /\ lastSync'.loaded
             /\ metaListeners' # <<>>
             /\ metaListeners'[Len(metaListeners')].play]_vars

\* C23: computePartAndOffset is pure: a call leaves its argument, the
\* timezone mode, the clock, lastPartIndex and the video as they are, and a
\* second call with the same Date returns the part and offset of the first.
C23_MapperIsPure ==
    [][(mpc' # mpc /\ mpc' \in {"done", "again"}) =>
          /\ date' = date
          /\ UNCHANGED <<clock, timezoneMode, zone, lastPartIndex, video,
                         metaListeners, seekedListeners, lastSync, storage>>
          /\ mpc' = "done" => mapped' = computePartAndOffset(date')
          /\ mpc' = "again" => mappedAgain' = mapped]_vars

\* C23's case: the mapper has been called twice on an instant of the
\* afternoon, read in Tokyo time
C23_Witness ==
    /\ mpc = "again"
    /\ timezoneMode = "tokyo"
    /\ mapped.partIndex = 1
    /\ mapped.offset > 0
    /\ mappedAgain = mapped
    /\ date # setHours(date)

\* C24: a loadAndSeekTo call for a new source sets the source and calls
\* load() and does no more than register its metadata handler: the element
\* is left loading at position 0 with no seek requested.  The seek is
\* applied, and playback started, when 'loadedmetadata' fires; a play() that
\* the browser rejects leaves the seek in flight, and the call completes
\* on 'seeked' with the video paused.
C24_SwapLoadsThenSeeks ==
    [][/\ (lastSync' # lastSync /\ lastSync'.loaded) =>
             /\ video'.src = partIndexToKey(lastSync'.callPart)
             /\ video'.loading
             /\ video'.readyState = 0
             /\ video'.currentTime = 0
             /\ ~video'.seeking
             /\ seekedListeners' = seekedListeners
             /\ retryTimers' = retryTimers
             /\ metaListeners' =
                   Append(metaListeners, [part |-> lastSync'.callPart,
                                          offset |-> lastSync'.callOffset,
                                          play |-> TRUE])
       /\ (video.loading /\ video'.readyState >= 1) =>
             /\ video.readyState = 0
             /\ video'.src = video.src
             /\ metaListeners' = <<>>
             /\ \A i \in DOMAIN metaListeners :
                   /\ Len(seekedListeners') >= Len(seekedListeners) + i
                   /\ seekedListeners'[Len(seekedListeners) + i].part =
                         metaListeners[i].part
             /\ metaListeners # <<>> =>
                   \/ video'.seeking
                   \/ Len(retryTimers') > Len(retryTimers)
       /\ (video.seeking /\ ~video'.seeking /\ video'.readyState >= 1) =>
             /\ video'.paused = video.paused
             /\ completed' = completed \cup
                   { seekedListeners[n].part : n \in DOMAIN seekedListeners }]_vars

\* C24's case: a call that changed the source has completed although the
\* browser blocked play(): the part is loaded at the call's offset, paused
C24_Witness ==
    /\ lastSync.loaded
    /\ lastSync.callPart \in completed
    /\ video.src = partIndexToKey(lastSync.callPart)
    /\ video.readyState >= 1
    /\ ~video.seeking
    /\ video.paused
    /\ video.currentTime = lastSync.callOffset
    /\ video.currentTime > 0

\* C25: a loadAndSeekTo call for the source the element already carries
\* neither assigns the source nor calls load(): source, readyState, load
\* state and duration stay.  With metadata (readyState >= 1) it runs doSeek at
\* once; without, it registers a metadata handler that will seek and not play,
\* and requests no seek itself.
C25_SameSourceSeeksWithoutReload ==
    [][(/\ lastSync' # lastSync
        /\ lastSync'.called
        /\ ~lastSync'.rejected
        /\ ~lastSync'.loaded) =>
          /\ video.src = partIndexToKey(lastSync'.callPart)
          /\ video'.src = video.src
          /\ video'.readyState = video.readyState
          /\ video'.loading = video.loading
          /\ video'.duration = video.duration
          /\ IF video.readyState >= 1
             THEN /\ metaListeners' = metaListeners
                  /\ seekedListeners' =
                        Append(seekedListeners,
                               [part |-> lastSync'.callPart,
                                offset |-> WrapOffset(lastSync'.callOffset,
                                                      video.duration)])
                  /\ \/ /\ video'.seeking
                        /\ video'.currentTime =
                              WrapOffset(lastSync'.callOffset, video.duration)
                        /\ retryTimers' = retryTimers
                     \/ /\ Throws(video)
                        /\ video'.currentTime = video.currentTime
                        /\ Len(retryTimers') = Len(retryTimers) + 1
             ELSE /\ seekedListeners' = seekedListeners
                  /\ retryTimers' = retryTimers
                  /\ video'.currentTime = video.currentTime
                  /\ ~video'.seeking
                  /\ metaListeners' =
                        Append(metaListeners, [part |-> lastSync'.callPart,
                                               offset |-> lastSync'.callOffset,
                                               play |-> FALSE])]_vars

\* C25's case: a call for the source the element carried has sought and
\* completed on that source, at the call's offset
C25_Witness ==
    /\ lastSync.called
    /\ ~lastSync.loaded
    /\ ~lastSync.rejected
    /\ lastSync.srcBefore = partIndexToKey(lastSync.callPart)
    /\ video.src = lastSync.srcBefore
    /\ lastSync.callPart \in completed
    /\ video.readyState >= 1
    /\ video.currentTime = lastSync.callOffset
    /\ video.currentTime > 0

\* C26: each doSeek applies the call's offset reduced modulo the media's
\* duration when that duration is known and shorter than the offset (a value
\* in [0, duration)), and the offset itself otherwise; the value is never
\* negative, and the seek it requests goes to that position.
C26_SeekWrapsModuloDuration ==
    [][\A n \in DOMAIN seekedListeners' :
          n > Len(seekedListeners) =>
             LET requested == IF video.loading /\ video'.readyState >= 1
                              THEN metaListeners[n - Len(seekedListeners)].offset
                              ELSE lastSync'.callOffset
                 d == video'.duration
                 applied == seekedListeners'[n].offset
             IN  /\ applied >= 0
                 /\ (d # 0 /\ d < requested) =>
                       /\ applied = requested % d
                       /\ applied \in 0 .. (d - 1)
                 /\ ~(d # 0 /\ d < requested) => applied = requested
                 /\ (n = Len(seekedListeners') /\ video'.seeking) =>
                       video'.currentTime = applied]_vars

\* C26's case: a seek for an offset beyond the end of a shorter media is in
\* flight at the offset modulo the duration
C26_Witness ==
    /\ seekedListeners # <<>>
    /\ video.seeking
    /\ video.duration # 0
    /\ lastSync.callOffset > video.duration
    /\ seekedListeners[Len(seekedListeners)].offset =
          lastSync.callOffset % video.duration
    /\ video.currentTime = lastSync.callOffset % video.duration
    /\ video.currentTime > 0

\* C27: a doSeek whose assignment of the position throws does not fail its
\* call: it sets one 300 ms timer for its offset, and nothing is completed or
\* rejected.  The timer's callback repeats the assignment once and sets no
\* timer, whether the assignment succeeds or throws; when it throws, the
\* element, the listeners and the controller stay as they are and the call
\* stays uncompleted.
C27_OneRetryOnly ==
    [][/\ (Len(seekedListeners') > Len(seekedListeners) /\ Throws(video')) =>
             /\ Len(retryTimers') - Len(retryTimers) =
                   Len(seekedListeners') - Len(seekedListeners)
             /\ \A k \in 1 .. (Len(retryTimers') - Len(retryTimers)) :
                   retryTimers'[Len(retryTimers) + k] =
                      seekedListeners'[Len(seekedListeners) + k].offset
             /\ completed' = completed
             /\ ~video'.seeking
             /\ lastSync' # lastSync => ~lastSync'.rejected
       /\ (Len(seekedListeners') > Len(seekedListeners) /\ ~Throws(video')) =>
             retryTimers' = retryTimers
       /\ retryTimers' # retryTimers =>
             \/ Len(seekedListeners') > Len(seekedListeners)
             \/ /\ retryTimers' = Tail(retryTimers)
                /\ UNCHANGED <<metaListeners, seekedListeners, completed,
                               lastPartIndex, lastSync>>
                /\ video' = IF Throws(video) THEN video
                            ELSE [video EXCEPT
                                     !.currentTime = Head(retryTimers),
                                     !.seeking = TRUE]]_vars

\* C27's case: the retry of a seek that threw has thrown as well: no timer
\* is left, no seek is in flight, and the call still waits for 'seeked'
C27_Witness ==
    /\ browserThrows
    /\ video.readyState >= 1
    /\ ~video.seekable
    /\ ~video.seeking
    /\ seekedListeners # <<>>
    /\ retryTimers = <<>>
    /\ completed = {}
    /\ lastPartIndex # NULL

\* C28: a loadAndSeekTo call's promise resolves only on the 'seeked' event of
\* the seek that call requested: every call that a 'seeked' event completes
\* asked for the position the acknowledged seek went to.
C28_ResolvesOnOwnSeekOnly ==
    [][(/\ video.seeking
        /\ ~video'.seeking
        /\ video'.readyState >= 1
        /\ completed' # completed) =>
          \A n \in DOMAIN seekedListeners :
             seekedListeners[n].offset = video.currentTime]_vars

\* C29: while a loadAndSeekTo call is outstanding - its metadata handler or
\* its seeked listener is still registered - no resync, by a tick or by the
\* timezone toggle, calls loadAndSeekTo.
C29_NoSecondCallWhileOutstanding ==
    [][(/\ (metaListeners # <<>> \/ seekedListeners # <<>>)
        /\ lastSync' # lastSync) =>
          ~lastSync'.called]_vars

\* the clock still shows the reading of the last resync evaluation
ClockAtLastSync ==
    computePartAndOffset(NowByMode(lastSync.mode)).offset = lastSync.offset

\* C30: once every call has settled and every retry timer has fired, the
\* video's source, position and lastPartIndex are those of the latest call
\* that changed the source - whatever earlier calls were still outstanding
\* when it was made.
C30_LaterCallWins ==
    (/\ lastSync.loaded
     /\ metaListeners = <<>>
     /\ seekedListeners = <<>>
     /\ retryTimers = <<>>
     /\ ~video.loading
     /\ ~video.seeking
     /\ ClockAtLastSync) =>
        /\ video.src = partIndexToKey(lastSync.callPart)
        /\ lastPartIndex = lastSync.callPart
        /\ video.currentTime = WrapOffset(lastSync.callOffset, video.duration)

-----------------------------------------------------------------------------
(* Ticks during an outstanding call, stuck loads and the drift fallback *)

IsPrefix(a, b) == Len(a) <= Len(b) /\ SubSeq(b, 1, Len(a)) = a

\* a loadAndSeekTo call still waits for its metadata, its 'seeked' event or
\* its retry timer
Outstanding ==
    metaListeners # <<>> \/ seekedListeners # <<>> \/ retryTimers # <<>>

\* C31: a tick that fires while a call is outstanding runs its whole
\* evaluation for the part mapped from the clock; it leaves the outstanding
\* calls' handlers and timers registered, in order, and completes none of
\* them itself; the metadata or seek acknowledgement they wait for is still
\* owed by the element afterwards; and the interval stays armed.
C31_TickDuringCallIsHarmless ==
    [][/\ started => TickArmed
       /\ (/\ lastSync' # lastSync
           /\ lastSync'.kind = "tick"
           /\ Outstanding) =>
             /\ lastSync'.part =
                   computePartAndOffset(NowByMode(timezoneMode)).partIndex
             /\ lastSync'.branch \in {"load", "same"}
             /\ IsPrefix(metaListeners, metaListeners')
             /\ IsPrefix(seekedListeners, seekedListeners')
             /\ IsPrefix(retryTimers, retryTimers')
             /\ completed' = completed
             /\ video.loading => video'.loading
             /\ video.seeking => (video'.seeking \/ video'.loading)
             /\ started'
             /\ TickArmed']_vars

\* C31's case: a tick has run its same-part evaluation while the call that
\* loads the part still waits for its metadata
C31_Witness ==
    /\ lastSync.kind = "tick"
    /\ lastSync.branch = "same"
    /\ ~lastSync.called
    /\ lastSync.resumed
    /\ metaListeners # <<>>
    /\ video.loading
    /\ lastPartIndex = lastSync.part

\* C32: while a call that changed the source waits for metadata that does
\* not arrive, the controller's part is still the one from before the call,
\* and a tick that maps to the call's part calls loadAndSeekTo for that part
\* again.
C32_StuckLoadIsRetried ==
    [][(/\ lastSync.loaded
        /\ video.loading
        /\ metaListeners # <<>>
        /\ lastSync' # lastSync
        /\ lastSync'.kind = "tick"
        /\ lastSync'.part = lastSync.callPart) =>
          /\ lastSync'.lastBefore = lastSync.lastBefore
          /\ lastSync'.called
          /\ lastSync'.callPart = lastSync.callPart]_vars

\* C33: in the same-part branch the controller seeks directly when the drift
\* exceeds 30 s; when that assignment throws it calls loadAndSeekTo for the
\* same part and the mapped offset, once (one handler is registered, the
\* source stays), and nothing is rejected; when it does not throw, or no seek
\* is needed, loadAndSeekTo is not called.  In every case the evaluation goes
\* on to play() when the video is paused.
C33_FallbackOnceThenResume ==
    [][(lastSync' # lastSync /\ lastSync'.branch = "same") =>
          /\ lastSync'.sought = DriftExceeds(video.currentTime, lastSync'.offset)
          /\ lastSync'.threw = (lastSync'.sought /\ Throws(video))
          /\ lastSync'.called = lastSync'.threw
          /\ ~lastSync'.rejected
          /\ ~lastSync'.loaded
          /\ lastSync'.resumed = video.paused
          /\ lastPartIndex' = lastPartIndex
          /\ video'.src = video.src
          /\ IF lastSync'.called
             THEN /\ lastSync'.callPart = lastSync'.part
                  /\ lastSync'.callPart = lastPartIndex
                  /\ lastSync'.callOffset = lastSync'.offset
                  /\ Len(metaListeners') + Len(seekedListeners') =
                        Len(metaListeners) + Len(seekedListeners) + 1
             ELSE /\ metaListeners' = metaListeners
                  /\ seekedListeners' = seekedListeners
                  /\ retryTimers' = retryTimers
                  /\ lastSync'.sought =>
                        video'.currentTime =
                           IF video.readyState = 0 THEN lastSync'.offset
                           ELSE Min(lastSync'.offset, video.duration)]_vars

\* C33's case: a tick's direct seek threw on a paused video; the tick fell
\* back to loadAndSeekTo for its part and went on to play()
C33_Witness ==
    /\ lastSync.kind = "tick"
    /\ lastSync.branch = "same"
    /\ lastSync.threw
    /\ lastSync.called
    /\ lastSync.resumed
    /\ lastSync.callPart = lastPartIndex
    /\ video.src = partIndexToKey(lastPartIndex)
    /\ metaListeners # <<>> \/ seekedListeners # <<>>

\* C34: the anchor of computePartAndOffset is never later than the instant
\* and less than 24 hours before it, so that the difference in seconds is in
\* [0, 86400) before the wrap of script.js:43.
C34_AnchorWithinOneDay ==
    mpc \in {"done", "again"} =>
        /\ Anchor(date) <= date
        /\ date - Anchor(date) < MsPerDay
        /\ DiffSeconds(date) \in 0 .. (86400 - 1)

\* C35: with the duration of the loaded media known, every position the
\* system asks the video for is at most that duration: the positions of
\* doSeek, and the position the same-part branch assigns directly.
C35_PositionsWithinDuration ==
    [][/\ \A n \in DOMAIN seekedListeners' :
             n > Len(seekedListeners) =>
                seekedListeners'[n].offset <= video'.duration
       /\ (/\ lastSync' # lastSync
           /\ lastSync'.sought
           /\ ~lastSync'.threw
           /\ video.duration # 0) =>
             lastSync'.offset <= video.duration]_vars

\* C36: whenever lastPartIndex is not null, the video's source is the
\* mapping's entry for that part, and the mapping has that entry.
C36_PartAndSourceAgree ==
    lastPartIndex # NULL =>
        /\ lastPartIndex \in {0, 1, 2}
        /\ video.src = partIndexToKey(lastPartIndex)
        /\ video.src \in sources

\* C36's case: a toggle has taken a session that had part 0 loaded to part 2
C36_Witness ==
    /\ lastSync.kind = "toggle"
    /\ lastSync.lastBefore = 0
    /\ lastSync.srcBefore = "p1"
    /\ lastPartIndex = 2
    /\ video.src = "p3"
    /\ video.readyState >= 1


\* the last volume above zero the video had: its volume, or, when the slider
\* has set it to zero, the volume remembered before
LastNonZeroVolume == IF volume # 0 THEN volume ELSE savedVolume

\* C37: after every step of a started page, savedVolume is above zero and an
\* unmuted video has a volume above zero; a slider input of zero mutes and
\* one above zero unmutes; and an unmuting click of the mute button or of
\* the video sets the volume to the last volume above zero.
C37_VolumeStaysPositive ==
    [][started /\ started' =>
         /\ savedVolume' > 0
         /\ ~muted' => volume' > 0
         /\ (VolumeInput /\ volume' = 0) => muted'
         /\ (VolumeInput /\ volume' > 0) => ~muted'
         /\ ((MuteClick \/ VideoClick) /\ muted /\ ~muted') =>
               volume' = LastNonZeroVolume]_vars


----------------------------------------------------------------------------
(* The Pomodoro timer's handlers, script.js:640-766. Whether the markup's   *)
(* start and pause controls still deliver clicks while disabled is left    *)
(* open: a click may come in every state. The notification of             *)
(* script.js:683-691 changes nothing of the timer.                         *)

\* the handle setInterval returns: one no interval still set carries, and
\* not the one the script holds
NewHandle ==
    CHOOSE h \in 1..(Cardinality(intervals) + 2) :
        h \notin intervals /\ h # timer

\* startTimer setting a new interval although one is running
startTimer_Unguarded ==
    /\ isRunning' = TRUE
    /\ buttons' = [startDisabled |-> TRUE, pauseDisabled |-> FALSE]
    /\ sessionItems' = savePomodoroState(remainingSeconds, currentMode,
                                         workRounds, TRUE)
    /\ timer' = NewHandle
    /\ intervals' = intervals \cup {NewHandle}
    /\ UNCHANGED <<remainingSeconds, currentMode, workRounds, durationInputs,
                   pomodoroShown>>

\* script.js:640-659, without the interval's callback
startTimer ==
    IF isRunning THEN UNCHANGED pomodoroVars
    ELSE /\ isRunning' = TRUE
         /\ buttons' = [startDisabled |-> TRUE, pauseDisabled |-> FALSE]
         /\ sessionItems' = savePomodoroState(remainingSeconds, currentMode,
                                              workRounds, TRUE)
         /\ timer' = NewHandle
         /\ intervals' = intervals \cup {NewHandle}
         /\ UNCHANGED <<remainingSeconds, currentMode, workRounds,
                        durationInputs, pomodoroShown>>

\* script.js:661-668
pauseTimer ==
    IF ~isRunning THEN UNCHANGED pomodoroVars
    ELSE /\ intervals' = intervals \ {timer}
         /\ isRunning' = FALSE
         /\ buttons' = [startDisabled |-> FALSE, pauseDisabled |-> TRUE]
         /\ sessionItems' = savePomodoroState(remainingSeconds, currentMode,
                                              workRounds, FALSE)
         /\ UNCHANGED <<timer, remainingSeconds, currentMode, workRounds,
                        durationInputs, pomodoroShown>>

\* script.js:670-679
resetTimer ==
    /\ intervals' = IF isRunning THEN intervals \ {timer} ELSE intervals
    /\ isRunning' = FALSE
    /\ currentMode' = "work"
    /\ remainingSeconds' = durationInputs.work * 60
    /\ workRounds' = 0
    /\ pomodoroShown' = updateDisplay(remainingSeconds', 0, "work")
    /\ buttons' = [startDisabled |-> FALSE, pauseDisabled |-> TRUE]
    /\ sessionItems' = savePomodoroState(remainingSeconds', "work", 0, FALSE)
    /\ UNCHANGED <<timer, durationInputs>>

\* handleTimerComplete taking the long break only after the counter has
\* passed maxRounds
handleTimerComplete_LateLongBreak(mode, rounds, inputs) ==
    IF mode = "work"
    THEN IF rounds + 1 > maxRounds
         THEN [mode |-> "long-break", remaining |-> inputs.long * 60,
               rounds |-> 0]
         ELSE [mode |-> "short-break", remaining |-> inputs.short * 60,
               rounds |-> rounds + 1]
    ELSE [mode |-> "work", remaining |-> inputs.work * 60, rounds |-> rounds]

\* script.js:693-707: the mode, the seconds and the round counter after a
\* countdown of the given mode has completed
handleTimerComplete(mode, rounds, inputs) ==
    IF mode = "work"
    THEN IF rounds + 1 >= maxRounds
         THEN [mode |-> "long-break", remaining |-> inputs.long * 60,
               rounds |-> 0]
         ELSE [mode |-> "short-break", remaining |-> inputs.short * 60,
               rounds |-> rounds + 1]
    ELSE [mode |-> "work", remaining |-> inputs.work * 60, rounds |-> rounds]

\* script.js:647-658: the callback of an interval that is set
IntervalFires ==
    /\ \E h \in intervals :
          IF remainingSeconds - 1 <= 0
          THEN LET next == handleTimerComplete(currentMode, workRounds,
                                               durationInputs)
               IN  /\ intervals' = intervals \ {timer}
                   /\ isRunning' = FALSE
                   /\ currentMode' = next.mode
                   /\ remainingSeconds' = next.remaining
                   /\ workRounds' = next.rounds
                   /\ pomodoroShown' = updateDisplay(next.remaining,
                                                     next.rounds, next.mode)
                   /\ buttons' = [startDisabled |-> FALSE,
                                  pauseDisabled |-> TRUE]
                   /\ sessionItems' = savePomodoroState(next.remaining,
                                         next.mode, next.rounds, FALSE)
                   /\ UNCHANGED <<timer, durationInputs>>
          ELSE /\ remainingSeconds' = remainingSeconds - 1
               /\ pomodoroShown' = updateDisplay(remainingSeconds',
                                                 workRounds, currentMode)
               /\ sessionItems' = savePomodoroState(remainingSeconds',
                                     currentMode, workRounds, isRunning)
               /\ UNCHANGED <<timer, intervals, isRunning, currentMode,
                              workRounds, durationInputs, buttons>>
    /\ UNCHANGED <<clock, timezoneMode, playerVars, controlVars, display,
                   settingsVars, envVars, mapperVars>>

\* script.js:733
StartClick ==
    /\ startTimer
    /\ UNCHANGED <<clock, timezoneMode, playerVars, controlVars, display,
                   settingsVars, envVars, mapperVars>>

\* script.js:734
PauseClick ==
    /\ pauseTimer
    /\ UNCHANGED <<clock, timezoneMode, playerVars, controlVars, display,
                   settingsVars, envVars, mapperVars>>

\* script.js:735
ResetClick ==
    /\ resetTimer
    /\ UNCHANGED <<clock, timezoneMode, playerVars, controlVars, display,
                   settingsVars, envVars, mapperVars>>

\* script.js:738-757: the change handlers of the three duration inputs
DurationChange ==
    /\ \E which \in {"work", "short", "long"}, v \in DurationValues :
          LET shown == IF which = "work" THEN "work"
                       ELSE IF which = "short" THEN "short-break"
                       ELSE "long-break"
          IN  /\ durationInputs' = [durationInputs EXCEPT ![which] = v]
              /\ IF ~isRunning /\ currentMode = shown
                 THEN /\ remainingSeconds' = v * 60
                      /\ pomodoroShown' = updateDisplay(v * 60, workRounds,
                                                        currentMode)
                 ELSE UNCHANGED <<remainingSeconds, pomodoroShown>>
    /\ UNCHANGED <<timer, intervals, isRunning, currentMode, workRounds,
                   buttons, sessionItems>>
    /\ UNCHANGED <<clock, timezoneMode, playerVars, controlVars, display,
                   settingsVars, envVars, mapperVars>>

\* the visitor reloads the page in the same tab: the intervals of the page
\* before end with it, the script starts from its initial values
\* (script.js:461-465), sessionStorage keeps its items and
\* loadPomodoroState (script.js:490-516) reads them
PomodoroReload ==
    /\ durationInputs' \in DurationInputs
    /\ LET saved == sessionItems.kind = "saved"
           remaining == IF saved THEN sessionItems.remaining ELSE 25 * 60
           mode == IF saved THEN sessionItems.mode ELSE "work"
           rounds == IF saved THEN sessionItems.rounds ELSE 0
           resume == saved /\ sessionItems.running
       IN  /\ remainingSeconds' = remaining
           /\ currentMode' = mode
           /\ workRounds' = rounds
           /\ pomodoroShown' = updateDisplay(remaining, rounds, mode)
           /\ isRunning' = resume
           /\ buttons' = [startDisabled |-> resume, pauseDisabled |-> FALSE]
           /\ timer' = IF resume THEN 1 ELSE NoTimer
           /\ intervals' = IF resume THEN {1} ELSE {}
           /\ sessionItems' = IF resume
                              THEN savePomodoroState(remaining, mode, rounds,
                                                     TRUE)
                              ELSE sessionItems
    /\ UNCHANGED <<clock, timezoneMode, playerVars, controlVars, display,
                   settingsVars, envVars, mapperVars>>

PomodoroInit ==
    /\ PomodoroConstructed
    /\ durationInputs \in DurationInputs
    /\ zone = [std |-> 0, rule |-> "none"]
    /\ clock = SyncBase
    /\ timezoneMode = "local"
    /\ sources = Keys
    /\ mediaDuration = PART_LENGTH_SECONDS
    /\ browserThrows = FALSE
    /\ video = EmptyVideo
    /\ metaListeners = <<>>
    /\ seekedListeners = <<>>
    /\ retryTimers = <<>>
    /\ completed = {}
    /\ lastPartIndex = NULL
    /\ started = FALSE
    /\ lastSync = NoSync
    /\ date = -1
    /\ mapped = NoResult
    /\ mappedNext = NoResult
    /\ mappedAgain = NoResult
    /\ mpc = "off"
    /\ muted = TRUE
    /\ volume = 10
    /\ savedVolume = 10
    /\ firstUserClick = TRUE
    /\ overlayHidden = FALSE
    /\ fullscreen = FALSE
    /\ display = NoDisplay
    /\ storage = NoItem
    /\ settingsLoaded = FALSE
    /\ unloadedMode = "none"
    /\ reloads = 0

PomodoroNext ==
    \/ StartClick
    \/ PauseClick
    \/ ResetClick
    \/ IntervalFires
    \/ DurationChange
    \/ PomodoroReload

SpecPomodoro == PomodoroInit /\ [][PomodoroNext]_vars


----------------------------------------------------------------------------
(* The Pomodoro timer's claims                                             *)

\* C38: a completing work countdown raises the round counter by one and
\* leads to a short break, except the one that brings the counter to 4,
\* which leads to a long break with the counter back at 0; a completing
\* break leads to work and leaves the counter alone; the counter stays
\* within 0..3; a completion leaves the timer stopped, and a stopped timer
\* runs again only through a click on start.
C38_PhaseOrder ==
    [][/\ (IntervalFires /\ remainingSeconds - 1 <= 0) =>
             /\ ~isRunning'
             /\ intervals' = {}
             /\ IF currentMode = "work"
                THEN IF workRounds + 1 = 4
                     THEN /\ currentMode' = "long-break"
                          /\ workRounds' = 0
                          /\ remainingSeconds' = durationInputs.long * 60
                     ELSE /\ currentMode' = "short-break"
                          /\ workRounds' = workRounds + 1
                          /\ remainingSeconds' = durationInputs.short * 60
                ELSE /\ currentMode' = "work"
                     /\ workRounds' = workRounds
                     /\ remainingSeconds' = durationInputs.work * 60
       /\ workRounds' \in 0..3
       /\ (~isRunning /\ isRunning') => StartClick]_vars

\* C38's case: the fourth work countdown in a row has completed and the long
\* break waits for the visitor's click on start
C38_Witness ==
    /\ currentMode = "long-break"
    /\ workRounds = 0
    /\ ~isRunning
    /\ intervals = {}
    /\ remainingSeconds = durationInputs.long * 60
    /\ sessionItems = savePomodoroState(remainingSeconds, "long-break", 0,
                                        FALSE)

\* C39: at most one interval is set at a time, and isRunning holds exactly
\* when one is; a click on start while running and a click on pause while
\* stopped change nothing; a callback that does not complete the countdown
\* lowers the remaining seconds by exactly one; no callback runs and no
\* click on start or pause changes the remaining seconds while the timer
\* is stopped.
C39_OneIntervalAtATime ==
    [][/\ Cardinality(intervals') <= 1
       /\ isRunning' <=> intervals' # {}
       /\ (StartClick /\ isRunning) => UNCHANGED pomodoroVars
       /\ (PauseClick /\ ~isRunning) => UNCHANGED pomodoroVars
       /\ (IntervalFires /\ remainingSeconds - 1 > 0) =>
             remainingSeconds' = remainingSeconds - 1
       /\ IntervalFires => isRunning
       /\ (~isRunning /\ (StartClick \/ PauseClick)) =>
             remainingSeconds' = remainingSeconds]_vars

\* C39's case: a countdown paused and started again is running on its second
\* interval, half a minute into a short break
C39_Witness ==
    /\ isRunning
    /\ intervals = {timer}
    /\ timer # 1
    /\ currentMode = "short-break"
    /\ remainingSeconds = 30

====
